---- MODULE Spec2Model ----
(***************************************************************************)
(* Order lifecycle and billing engine of the restaurant management         *)
(* backend: one order document, the catalog it refers to, and the bills    *)
(* written for it.  Handlers are those of controllers/orderController.js   *)
(* (src/unnamed/part_007), controllers/billController.js                   *)
(* (src/unnamed/part_009) and the pre-save hook of models/Order.js         *)
(* (src/unnamed/part_001).                                                 *)
(***************************************************************************)
EXTENDS Integers, Sequences, FiniteSets, TLC

\* ---------------------------------------------------------------- bounds
MaxItems == 2        \* items in a createOrder request
MaxQty == 2          \* largest quantity in a request line
MaxPrice == 2        \* catalog prices range over 1..MaxPrice
MaxBills == 2        \* Bill documents kept in the collection
MaxSplitItems == 1   \* lines in one split portion
MaxSplits == 2       \* portions in one splitBill request
MaxOrderQty == 2     \* total quantity of an order outside the order-engine spec
MaxDay == 3          \* days the clock runs through, 0..MaxDay
MaxTime == 3         \* reservation times, in hours, range over 0..MaxTime
MaxReservations == 2 \* Reservation documents kept in the collection

\* width of the reservation conflict window on each side, in hours
ConflictWindowHours == 2

\* ------------------------------------------------------------ vocabulary
Dishes == {"dishA", "dishB"}
UnknownDish == "dishX"
Prices == 1..MaxPrice
Undefined == -1

\* orderItemSchema.status enum
ItemStatuses ==
  {"pending", "accepted", "declined", "preparing", "ready", "cancelled",
   "cancellation_requested"}

\* orderSchema.orderStatus enum
OrderStatuses == {"pending", "preparing", "ready", "completed", "cancelled"}

\* mutation: the target status is not validated
validItemStatusesUnchecked == ItemStatuses \cup {"served"}

\* validItemStatuses of updateOrderItemStatus
validItemStatuses ==
  {"accepted", "declined", "preparing", "ready", "cancelled",
   "cancellation_requested"}

\* validTransitions of updateOrderStatus
validTransitions(from) ==
  CASE from = "pending" -> {"preparing", "cancelled"}
    [] from = "preparing" -> {"ready", "cancelled"}
    [] from = "ready" -> {"completed", "cancelled"}
    [] OTHER -> {}

VARIABLES
  dishes,   \* Dish collection: dish id -> document
  orders,   \* Order collection (a sequence; the model follows one order)
  bills,    \* Bill collection, in insertion order
  today,    \* the clock read by new Date()
  req,      \* in-flight generateBill requests (used by the concurrent spec)
  res,      \* response of the last finished handler
  reservations,  \* Reservation collection, in insertion order
  whatsapp  \* sendWhatsAppMessage calls of the last handler, with their result

vars == <<dishes, orders, bills, today, req, res, reservations, whatsapp>>

Reqs == {1, 2}
IdleReq == [pc |-> "idle", order |-> <<>>, bill |-> <<>>]

\* res.status(code): the handler that answered and its HTTP status
Response(op, code, msg) == [op |-> op, code |-> code]

\* ------------------------------------------------------------ WhatsApp
\* what sendWhatsAppMessage resolves to: true when Twilio took the message,
\* false when the number is missing or malformed or Twilio failed
WhatsAppResults == BOOLEAN

\* one call of sendWhatsAppMessage: the message and the value it resolved to
sendWhatsAppMessage(body, result) == [body |-> body, sent |-> result]

\* ------------------------------------------------------------- catalog
\* dishSchema (price, availability and the special-offer fields read by the
\* bill handlers)
NewDish(p) ==
  [price |-> p, isAvailable |-> TRUE, isSpecial |-> FALSE,
   specialPrice |-> Undefined,
   specialStartDate |-> Undefined, specialEndDate |-> Undefined]

\* ------------------------------------------------------- Order pre-save
RECURSIVE SumFrom(_, _, _)
SumFrom(f, i, n) == IF i > n THEN 0 ELSE f[i] + SumFrom(f, i + 1, n)

\* mutation: the hook counts every item, whatever its status
ItemContributionAnyStatus(item, catalog) ==
  catalog[item.dish].price * item.quantity

\* body of the loop of orderSchema.pre('save'): contribution of one item
ItemContribution(item, catalog) ==
  IF item.status = "accepted" /\ item.status # "cancelled"
     /\ item.status # "cancellation_requested"
  THEN catalog[item.dish].price * item.quantity
  ELSE 0

calculatedTotal(items, catalog) ==
  SumFrom([i \in DOMAIN items |-> ItemContribution(items[i], catalog)],
          1, Len(items))

\* orderSchema.pre('save'): recompute only when items are modified or the
\* document is new
orderSchemaPreSave(old, new, isNew, catalog) ==
  IF isNew \/ old.items # new.items
  THEN [new EXCEPT !.totalAmount = calculatedTotal(new.items, catalog)]
  ELSE new

\* the catalog before any request: dishA at 1, dishB at MaxPrice
InitialCatalog ==
  [d \in Dishes |-> NewDish(IF d = "dishA" THEN 1 ELSE MaxPrice)]

Init ==
  /\ dishes = InitialCatalog
  /\ orders = <<>>
  /\ bills = <<>>
  /\ today = 0
  /\ req = [r \in Reqs |-> IdleReq]
  /\ res = Response("none", 0, "")
  /\ reservations = <<>>
  /\ whatsapp = <<>>

Quiet == \A r \in Reqs : req[r].pc = "idle"

\* ------------------------------------------------------------ createOrder
RequestLines ==
  [dish : Dishes \cup {UnknownDish}, quantity : 0..MaxQty]

RequestItems ==
  UNION {[1..n -> RequestLines] : n \in 0..MaxItems}

RECURSIVE createOrderError(_, _)
createOrderError(items, i) ==
  IF i > Len(items) THEN Response("createOrder", 201, "")
  ELSE IF items[i].dish \notin DOMAIN dishes
       THEN Response("createOrder", 404, "dish not found")
  ELSE IF items[i].quantity <= 0
       THEN Response("createOrder", 400, "quantity")
  ELSE createOrderError(items, i + 1)

createOrder(items) ==
  /\ Quiet
  /\ orders = <<>>
  /\ IF Len(items) = 0
     THEN /\ res' = Response("createOrder", 400, "no items")
          /\ UNCHANGED orders
     ELSE LET r == createOrderError(items, 1)
              doc == [items |-> [i \in DOMAIN items |->
                                   [dish |-> items[i].dish,
                                    quantity |-> items[i].quantity,
                                    status |-> "pending"]],
                      orderStatus |-> "pending",
                      totalAmount |-> 0,
                      isBilled |-> FALSE]
          IN /\ res' = r
             /\ orders' = IF r.code = 201
                          THEN <<orderSchemaPreSave(doc, doc, TRUE, dishes)>>
                          ELSE orders
  /\ UNCHANGED <<dishes, bills, today, req, reservations>>
  /\ whatsapp' = <<>>

\* ---------------------------------------------------- updateOrderItemStatus
\* flags computed by the loop over order.items after the item was changed
allItemsProcessed(items) ==
  \A i \in DOMAIN items : items[i].status # "pending"

anyItemsAccepted(items) ==
  \E i \in DOMAIN items : items[i].status = "accepted"

allItemsReady(items) ==
  ~ \E i \in DOMAIN items :
      items[i].status = "accepted" /\ items[i].status # "ready"

\* the two ifs that re-evaluate the overall order status
reevaluateOrderStatus(items, current) ==
  LET s1 == IF allItemsProcessed(items) /\ anyItemsAccepted(items)
            THEN "preparing" ELSE current
  IN IF allItemsReady(items) /\ anyItemsAccepted(items) THEN "ready" ELSE s1

\* status targets a request may carry ("pending" is outside validItemStatuses,
\* "served" is no status at all)
RequestStatuses == ItemStatuses \cup {"served"}
\* item ids a request may name (an order with fewer items lacks the last ones)
ItemIds == 1..MaxItems

\* item.status = status, then the re-evaluation of order.orderStatus
itemStatusUpdated(order, itemId, status) ==
  LET items1 == [order.items EXCEPT ![itemId].status = status]
  IN [order EXCEPT
        !.items = items1,
        !.orderStatus = reevaluateOrderStatus(items1, order.orderStatus)]

updateOrderItemStatus(itemId, status) ==
  /\ Quiet
  /\ IF orders = <<>>
     THEN /\ res' = Response("updateOrderItemStatus", 404, "order not found")
          /\ UNCHANGED orders
     ELSE LET order == orders[1] IN
       IF itemId \notin DOMAIN order.items
       THEN /\ res' = Response("updateOrderItemStatus", 404, "item not found")
            /\ UNCHANGED orders
       ELSE IF status \notin validItemStatuses
       THEN /\ res' = Response("updateOrderItemStatus", 400, "invalid status")
            /\ UNCHANGED orders
       ELSE IF order.orderStatus = "completed"
               \/ order.orderStatus = "cancelled" \/ order.isBilled
       THEN /\ res' = Response("updateOrderItemStatus", 400, "closed")
            /\ UNCHANGED orders
       ELSE LET new == itemStatusUpdated(order, itemId, status)
            IN /\ orders' = <<orderSchemaPreSave(order, new, FALSE, dishes)>>
               /\ res' = Response("updateOrderItemStatus", 200, "")
  /\ UNCHANGED <<dishes, bills, today, req, reservations>>
  /\ whatsapp' = <<>>

\* -------------------------------------------------------- updateOrderStatus
updateOrderStatus(status) ==
  /\ Quiet
  /\ IF orders = <<>>
     THEN /\ res' = Response("updateOrderStatus", 404, "order not found")
          /\ UNCHANGED orders
     ELSE LET order == orders[1] IN
       IF order.isBilled \/ order.orderStatus = "completed"
          \/ order.orderStatus = "cancelled"
       THEN /\ res' = Response("updateOrderStatus", 400, "closed")
            /\ UNCHANGED orders
       ELSE IF status \notin validTransitions(order.orderStatus)
       THEN /\ res' = Response("updateOrderStatus", 400, "invalid transition")
            /\ UNCHANGED orders
       ELSE LET new == [order EXCEPT !.orderStatus = status]
            IN /\ orders' = <<orderSchemaPreSave(order, new, FALSE, dishes)>>
               /\ res' = Response("updateOrderStatus", 200, "")
  /\ UNCHANGED <<dishes, bills, today, req, reservations>>
  /\ whatsapp' = <<>>

\* -------------------------------------------------------------- cancelOrder
cancelOrder ==
  /\ Quiet
  /\ IF orders = <<>>
     THEN /\ res' = Response("cancelOrder", 404, "order not found")
          /\ UNCHANGED orders
     ELSE LET order == orders[1] IN
       IF order.isBilled \/ order.orderStatus = "completed"
       THEN /\ res' = Response("cancelOrder", 400, "closed")
            /\ UNCHANGED orders
       ELSE LET items1 == [i \in DOMAIN order.items |->
                             IF order.items[i].status # "declined"
                             THEN [order.items[i] EXCEPT !.status = "cancelled"]
                             ELSE order.items[i]]
                new == [order EXCEPT !.orderStatus = "cancelled",
                                     !.items = items1]
            IN /\ orders' = <<orderSchemaPreSave(order, new, FALSE, dishes)>>
               /\ res' = Response("cancelOrder", 200, "")
  /\ UNCHANGED <<dishes, bills, today, req, reservations>>
  /\ whatsapp' = <<>>

\* -------------------------------------------------- requestItemCancellation
\* the guard that refuses a cancellation request
cancellationRefused(order, itemId) ==
  \/ order.orderStatus = "completed"
  \/ order.isBilled
  \/ order.items[itemId].status = "cancelled"
  \/ order.items[itemId].status = "ready"

\* item.status = 'cancellation_requested'
cancellationRequested(order, itemId) ==
  [order EXCEPT !.items[itemId].status = "cancellation_requested"]

requestItemCancellation(itemId) ==
  /\ Quiet
  /\ IF orders = <<>>
     THEN /\ res' = Response("requestItemCancellation", 404, "order not found")
          /\ UNCHANGED orders
     ELSE LET order == orders[1] IN
       IF itemId \notin DOMAIN order.items
       THEN /\ res' = Response("requestItemCancellation", 404, "item not found")
            /\ UNCHANGED orders
       ELSE IF cancellationRefused(order, itemId)
       THEN /\ res' = Response("requestItemCancellation", 400, "closed")
            /\ UNCHANGED orders
       ELSE LET new == cancellationRequested(order, itemId)
            IN /\ orders' = <<orderSchemaPreSave(order, new, FALSE, dishes)>>
               /\ res' = Response("requestItemCancellation", 200, "")
  /\ UNCHANGED <<dishes, bills, today, req, reservations>>
  /\ whatsapp' = <<>>

\* --------------------------------------------------- manageItemCancellation
CancellationActions == {"approve", "reject", "other"}

\* mutation: the resolution is not written to the item
cancellationUnresolved(order, itemId, action) == order

\* the assignment to item.status of the approve and the reject branch
cancellationResolved(order, itemId, action) ==
  [order EXCEPT !.items[itemId].status =
     IF action = "approve" THEN "cancelled" ELSE "accepted"]

\* the message is sent before order.save(); its result is not looked at
manageItemCancellation(itemId, action) ==
  /\ Quiet
  /\ IF orders = <<>>
     THEN /\ res' = Response("manageItemCancellation", 404, "order not found")
          /\ UNCHANGED orders
          /\ whatsapp' = <<>>
     ELSE LET order == orders[1] IN
       IF itemId \notin DOMAIN order.items
       THEN /\ res' = Response("manageItemCancellation", 404, "item not found")
            /\ UNCHANGED orders
            /\ whatsapp' = <<>>
       ELSE IF order.items[itemId].status # "cancellation_requested"
       THEN /\ res' = Response("manageItemCancellation", 400, "not requested")
            /\ UNCHANGED orders
            /\ whatsapp' = <<>>
       ELSE IF action \notin {"approve", "reject"}
       THEN /\ res' = Response("manageItemCancellation", 400, "invalid action")
            /\ UNCHANGED orders
            /\ whatsapp' = <<>>
       ELSE LET new == cancellationResolved(order, itemId, action)
            IN /\ \E result \in WhatsAppResults :
                    whatsapp' = <<sendWhatsAppMessage(
                                    IF action = "approve"
                                    THEN "cancellation approved"
                                    ELSE "cancellation rejected", result)>>
               /\ orders' = <<orderSchemaPreSave(order, new, FALSE, dishes)>>
               /\ res' = Response("manageItemCancellation", 200, "")
  /\ UNCHANGED <<dishes, bills, today, req, reservations>>

\* manageItemCancellation when order.save() rejects (the database refuses
\* the write): the message is already out, nothing is stored, and the error
\* handler answers 500
manageItemCancellationSaveRejected(itemId, action) ==
  /\ Quiet
  /\ orders # <<>>
  /\ itemId \in DOMAIN orders[1].items
  /\ orders[1].items[itemId].status = "cancellation_requested"
  /\ action \in {"approve", "reject"}
  /\ \E result \in WhatsAppResults :
       whatsapp' = <<sendWhatsAppMessage(
                       IF action = "approve"
                       THEN "cancellation approved"
                       ELSE "cancellation rejected", result)>>
  /\ res' = Response("manageItemCancellation", 500, "save failed")
  /\ UNCHANGED <<dishes, orders, bills, today, req, reservations>>

\* ---------------------------------------------------------------- updateDish
\* the price assignment of updateDish (a request that carries only a price)
updateDish(d, price) ==
  /\ Quiet
  /\ dishes' = [dishes EXCEPT ![d].price = price]
  /\ res' = Response("updateDish", 200, "")
  /\ UNCHANGED <<orders, bills, today, req, reservations>>
  /\ whatsapp' = <<>>

\* ---------------------------------------------------- toggleDishAvailability
toggleDishAvailability(d) ==
  /\ Quiet
  /\ IF d \in DOMAIN dishes
     THEN /\ dishes' = [dishes EXCEPT ![d].isAvailable = ~@]
          /\ res' = Response("toggleDishAvailability", 200, "")
     ELSE /\ res' = Response("toggleDishAvailability", 404, "dish not found")
          /\ UNCHANGED dishes
  /\ UNCHANGED <<orders, bills, today, req, reservations>>
  /\ whatsapp' = <<>>

\* ----------------------------------------------------- price at bill time
\* JavaScript truthiness of an optional number / an optional date
TruthyNumber(x) == x # Undefined /\ x # 0
TruthyDate(x) == x # Undefined

\* the special-offer check shared by generateBill and splitBill
priceToUse(dish, now) ==
  IF /\ dish.isSpecial
     /\ TruthyNumber(dish.specialPrice)
     /\ TruthyDate(dish.specialStartDate)
     /\ TruthyDate(dish.specialEndDate)
     /\ now >= dish.specialStartDate
     /\ now <= dish.specialEndDate
  THEN dish.specialPrice
  ELSE dish.price

\* ---------------------------------------------------------- toggleDishSpecial
\* the request body: its three fields, each of them optional
SpecialBodies ==
  [specialPrice : {Undefined, 0, 1},
   specialStartDate : {Undefined, 1},
   specialEndDate : {Undefined, 2}]

\* toggleDishSpecial: dishSchema declares specialStartDate and
\* specialEndDate and no specialDateRange, so `dish.specialDateRange` is
\* undefined and the assignment to `dish.specialDateRange.start`, made in
\* both branches before dish.save(), throws; nothing is saved
toggleDishSpecial(d, body) ==
  /\ Quiet
  /\ IF d \notin DOMAIN dishes
     THEN res' = Response("toggleDishSpecial", 404, "dish not found")
     ELSE IF /\ ~dishes[d].isSpecial
             /\ \/ ~TruthyNumber(body.specialPrice)
                \/ body.specialStartDate = Undefined
                \/ body.specialEndDate = Undefined
     THEN res' = Response("toggleDishSpecial", 400, "offer fields required")
     ELSE res' = Response("toggleDishSpecial", 500, "TypeError")
  /\ UNCHANGED <<dishes, orders, bills, today, req, reservations>>
  /\ whatsapp' = <<>>

RECURSIVE billTotal(_, _)
billTotal(items, i) ==
  IF i > Len(items) THEN 0
  ELSE items[i].quantity * items[i].price + billTotal(items, i + 1)

\* ------------------------------------------------------------- generateBill
\* the status test that selects the items to bill
isBillable(item) == item.status = "accepted"

\* the loop over order.items of generateBill
RECURSIVE billedItems(_, _, _, _)
billedItems(items, i, catalog, now) ==
  IF i > Len(items) THEN <<>>
  ELSE IF isBillable(items[i])
       THEN <<[dish |-> items[i].dish,
               quantity |-> items[i].quantity,
               price |-> priceToUse(catalog[items[i].dish], now)]>>
            \o billedItems(items, i + 1, catalog, now)
       ELSE billedItems(items, i + 1, catalog, now)

\* new Bill({...}) of generateBill
NewBill(order, items) ==
  [items |-> items,
   totalAmount |-> billTotal(items, 1),
   paymentStatus |-> "pending",
   isSplitBill |-> FALSE,
   splitGroupIdentifier |-> 0,
   originalOrderTotal |-> order.totalAmount]

\* mutation: the billed flag is not written
markBilledDropsFlag(stored, order) ==
  [stored EXCEPT !.orderStatus = "completed"]

\* mutation: the order status is not written
markBilledKeepsStatus(stored, order) ==
  [stored EXCEPT !.isBilled = TRUE]

\* order.isBilled = true; orderStatus = "completed"; order.save()
\* (save writes the paths the request modified onto the stored document)
markBilled(stored, order) ==
  orderSchemaPreSave(stored,
    [stored EXCEPT !.isBilled = TRUE,
                   !.orderStatus = IF order.orderStatus # "completed"
                                   THEN "completed" ELSE @],
    FALSE, dishes)

generateBill ==
  /\ Quiet
  /\ IF orders = <<>>
     THEN /\ res' = Response("generateBill", 404, "order not found")
          /\ UNCHANGED <<orders, bills>>
     ELSE LET order == orders[1]
              items == billedItems(order.items, 1, dishes, today)
          IN IF order.isBilled
             THEN /\ res' = Response("generateBill", 400, "already billed")
                  /\ UNCHANGED <<orders, bills>>
             ELSE IF Len(items) = 0
             THEN /\ res' = Response("generateBill", 400, "nothing to bill")
                  /\ UNCHANGED <<orders, bills>>
             ELSE /\ Len(bills) < MaxBills
                  /\ bills' = Append(bills, NewBill(order, items))
                  /\ orders' = <<markBilled(order, order)>>
                  /\ res' = Response("generateBill", 201, "")
  /\ UNCHANGED <<dishes, today, req, reservations>>
  /\ whatsapp' = <<>>

\* generateBill as the requests of two clients, one await at a time:
\* Order.findById and the synchronous checks up to bill.save()
generateBillRead(r) ==
  /\ req[r].pc = "idle"
  /\ orders # <<>>
  /\ Len(bills) + Cardinality({q \in Reqs : req[q].pc = "saveBill"}) < MaxBills
  /\ LET order == orders[1]
         items == billedItems(order.items, 1, dishes, today)
     IN IF order.isBilled
        THEN /\ res' = Response("generateBill", 400, "already billed")
             /\ UNCHANGED req
        ELSE IF Len(items) = 0
        THEN /\ res' = Response("generateBill", 400, "nothing to bill")
             /\ UNCHANGED req
        ELSE /\ req' = [req EXCEPT ![r] = [pc |-> "saveBill",
                                           order |-> <<order>>,
                                           bill |-> <<NewBill(order, items)>>]]
             /\ UNCHANGED res
  /\ UNCHANGED <<dishes, orders, bills, today, reservations>>
  /\ whatsapp' = <<>>

\* await bill.save()
generateBillSaveBill(r) ==
  /\ req[r].pc = "saveBill"
  /\ bills' = bills \o req[r].bill
  /\ req' = [req EXCEPT ![r].pc = "saveOrder"]
  /\ UNCHANGED <<dishes, orders, today, res, reservations>>
  /\ whatsapp' = <<>>

\* order.isBilled = true; ...; await order.save(); res.status(201)
generateBillSaveOrder(r) ==
  /\ req[r].pc = "saveOrder"
  /\ orders' = <<markBilled(orders[1], req[r].order[1])>>
  /\ req' = [req EXCEPT ![r] = IdleReq]
  /\ res' = Response("generateBill", 201, "")
  /\ UNCHANGED <<dishes, bills, today, reservations>>
  /\ whatsapp' = <<>>

\* ---------------------------------------------------------------- splitBill
SplitLines == [dish : Dishes, quantity : 1..MaxQty]
SplitPortions == UNION {[1..n -> SplitLines] : n \in 0..MaxSplitItems}
SplitRequests == UNION {[1..n -> SplitPortions] : n \in 1..MaxSplits}

\* uuidv4(): an identifier no stored bill carries
uuidv4 ==
  CHOOSE n \in 1..(Len(bills) + 1) :
    /\ \A b \in DOMAIN bills : bills[b].splitGroupIdentifier # n
    /\ \A m \in 1..(n - 1) :
         \E b \in DOMAIN bills : bills[b].splitGroupIdentifier = m

\* acceptedOrderItemsMap: dish -> accepted quantity (0: no entry)
RECURSIVE acceptedQuantity(_, _, _)
acceptedQuantity(items, i, d) ==
  IF i > Len(items) THEN 0
  ELSE (IF items[i].status = "accepted" /\ items[i].dish = d
        THEN items[i].quantity ELSE 0) + acceptedQuantity(items, i + 1, d)

acceptedOrderItemsMap(order) ==
  [d \in Dishes |-> acceptedQuantity(order.items, 1, d)]

MapSize(map) == Cardinality({d \in DOMAIN map : map[d] > 0})

\* the inner loop over split.items: validates and allocates one portion
RECURSIVE splitPortion(_, _, _, _, _)
splitPortion(lines, i, map, tracker, acc) ==
  IF i > Len(lines) THEN [ok |-> TRUE, map |-> map, items |-> acc]
  ELSE LET l == lines[i] IN
    IF l.quantity <= 0
    THEN [ok |-> FALSE, map |-> map, items |-> acc]
    ELSE IF l.dish \in tracker
    THEN [ok |-> FALSE, map |-> map, items |-> acc]
    ELSE IF map[l.dish] = 0
    THEN [ok |-> FALSE, map |-> map, items |-> acc]
    ELSE IF l.quantity > map[l.dish]
    THEN [ok |-> FALSE, map |-> map, items |-> acc]
    ELSE splitPortion(lines, i + 1,
           [map EXCEPT ![l.dish] = @ - l.quantity],
           tracker \cup {l.dish},
           Append(acc, [dish |-> l.dish, quantity |-> l.quantity,
                        price |-> priceToUse(dishes[l.dish], today)]))

\* new Bill({...}) of splitBill
NewSplitBill(order, items, uuid) ==
  [items |-> items,
   totalAmount |-> billTotal(items, 1),
   paymentStatus |-> "pending",
   isSplitBill |-> TRUE,
   splitGroupIdentifier |-> uuid,
   originalOrderTotal |-> order.totalAmount]

\* the outer loop over splits: each portion's bill is saved as soon as the
\* portion has been validated; a throw leaves the bills saved so far
RECURSIVE splitLoop(_, _, _, _, _, _)
splitLoop(splits, idx, map, created, order, uuid) ==
  IF idx > Len(splits) THEN [ok |-> TRUE, map |-> map, created |-> created]
  ELSE IF Len(splits[idx]) = 0
  THEN [ok |-> FALSE, map |-> map, created |-> created]
  ELSE LET p == splitPortion(splits[idx], 1, map, {}, <<>>) IN
    IF ~ p.ok
    THEN [ok |-> FALSE, map |-> map, created |-> created]
    ELSE splitLoop(splits, idx + 1, p.map,
                   Append(created, NewSplitBill(order, p.items, uuid)),
                   order, uuid)

splitBill(splits) ==
  /\ Quiet
  /\ IF Len(splits) < 2
     THEN /\ res' = Response("splitBill", 400, "at least 2 portions")
          /\ UNCHANGED <<orders, bills>>
     ELSE IF orders = <<>>
     THEN /\ res' = Response("splitBill", 404, "order not found")
          /\ UNCHANGED <<orders, bills>>
     ELSE LET order == orders[1]
              map == acceptedOrderItemsMap(order)
              r == splitLoop(splits, 1, map, <<>>, order, uuidv4)
          IN IF order.isBilled
             THEN /\ res' = Response("splitBill", 400, "already billed")
                  /\ UNCHANGED <<orders, bills>>
             ELSE IF MapSize(map) = 0
             THEN /\ res' = Response("splitBill", 400, "nothing to split")
                  /\ UNCHANGED <<orders, bills>>
             ELSE /\ Len(bills) + Len(r.created) <= MaxBills
                  /\ bills' = bills \o r.created
                  /\ IF r.ok /\ MapSize(r.map) = 0
                     THEN /\ orders' = <<markBilled(order, order)>>
                          /\ res' = Response("splitBill", 201, "")
                     ELSE /\ res' = Response("splitBill", 400, "split failed")
                          /\ UNCHANGED orders
  /\ UNCHANGED <<dishes, today, req, reservations>>
  /\ whatsapp' = <<>>

\* ------------------------------------------------- updateBillPaymentStatus
BillIds == 1..MaxBills
PaymentStatuses == {"pending", "paid", "refunded"}

\* mutation: a message on every request that sets paid
notificationOnEveryPaid(paymentStatus, oldPaymentStatus) ==
  paymentStatus = "paid"

\* if (paymentStatus === "paid" && oldPaymentStatus !== "paid")
paymentNotificationDue(paymentStatus, oldPaymentStatus) ==
  paymentStatus = "paid" /\ oldPaymentStatus # "paid"

updateBillPaymentStatus(billId, paymentStatus) ==
  /\ Quiet
  /\ IF billId \notin DOMAIN bills
     THEN /\ res' = Response("updateBillPaymentStatus", 404, "bill not found")
          /\ UNCHANGED bills
          /\ whatsapp' = <<>>
     ELSE IF paymentStatus \notin {"paid", "refunded"}
     THEN /\ res' = Response("updateBillPaymentStatus", 400, "invalid status")
          /\ UNCHANGED bills
          /\ whatsapp' = <<>>
     ELSE LET oldPaymentStatus == bills[billId].paymentStatus
          IN /\ bills' = [bills EXCEPT ![billId].paymentStatus = paymentStatus]
             /\ IF paymentNotificationDue(paymentStatus, oldPaymentStatus)
                THEN \E result \in WhatsAppResults :
                       whatsapp' = <<sendWhatsAppMessage("bill paid", result)>>
                ELSE whatsapp' = <<>>
             /\ res' = Response("updateBillPaymentStatus", 200, "")
  /\ UNCHANGED <<dishes, orders, today, req, reservations>>

\* ------------------------------------------------------------ reservations
\* two of the ten ALL_TABLE_NUMBERS, and a number outside the list
Tables == {"T-1", "T-2"}
UnknownTable == "T-0"
ReservationTimes == 0..MaxTime
ReservationStatuses ==
  {"pending", "confirmed", "seated", "cancelled", "completed"}

\* req.user._id: the admin or waiter of the staff routes, and the customers
Staff == "admin"
Customers == {"alice", "bob"}
\* a reference to a user that was never set
NoUser == "nobody"
\* status: { $in: ['pending', 'confirmed', 'seated'] }
ActiveStatuses == {"pending", "confirmed", "seated"}

\* mutation: the bounds of the conflict window are left out of the window
existingReservationStrictWindow(tableNumber, reservationTime) ==
  \E k \in DOMAIN reservations :
    /\ reservations[k].tableNumber = tableNumber
    /\ reservations[k].reservationTime > reservationTime - ConflictWindowHours
    /\ reservations[k].reservationTime < reservationTime + ConflictWindowHours
    /\ reservations[k].status \in {"pending", "confirmed", "seated"}

\* Reservation.findOne({tableNumber, reservationTime in the window,
\* status in pending/confirmed/seated})
existingReservation(tableNumber, reservationTime) ==
  \E k \in DOMAIN reservations :
    /\ reservations[k].tableNumber = tableNumber
    /\ reservations[k].reservationTime >= reservationTime - ConflictWindowHours
    /\ reservations[k].reservationTime <= reservationTime + ConflictWindowHours
    /\ reservations[k].status \in {"pending", "confirmed", "seated"}

\* the validations and the conflict check shared by both create handlers
reservationError(op, tableNumber, numberOfGuests, reservationTime) ==
  IF numberOfGuests = 0
  THEN Response(op, 400, "required fields")
  ELSE IF tableNumber \notin Tables
  THEN Response(op, 400, "invalid table")
  ELSE IF numberOfGuests < 1
  THEN Response(op, 400, "guests")
  ELSE IF existingReservation(tableNumber, reservationTime)
  THEN Response(op, 409, "conflict")
  ELSE Response(op, 201, "")

\* mutation: every new reservation is stored as confirmed
NewReservationConfirmed(tableNumber, reservationTime, isCustomer, status, user) ==
  [tableNumber |-> tableNumber,
   reservationTime |-> reservationTime,
   status |-> "confirmed",
   isCustomerReservation |-> isCustomer,
   reservedBy |-> user,
   approvedBy |-> NoUser,
   approvedAt |-> Undefined]

NewReservation(tableNumber, reservationTime, isCustomer, status, user) ==
  [tableNumber |-> tableNumber,
   reservationTime |-> reservationTime,
   status |-> status,
   isCustomerReservation |-> isCustomer,
   reservedBy |-> user,
   approvedBy |-> NoUser,
   approvedAt |-> Undefined]

\* createReservation (admin or waiter): stored as confirmed
createReservation(tableNumber, numberOfGuests, reservationTime) ==
  /\ Quiet
  /\ Len(reservations) < MaxReservations
  /\ LET r == reservationError("createReservation", tableNumber,
                               numberOfGuests, reservationTime)
     IN /\ res' = r
        /\ reservations' =
             IF r.code = 201
             THEN Append(reservations,
                         NewReservation(tableNumber, reservationTime, FALSE,
                                        "confirmed", Staff))
             ELSE reservations
  /\ whatsapp' = <<>>
  /\ UNCHANGED <<dishes, orders, bills, today, req>>

\* createCustomerReservation: stored as pending, awaiting approval
createCustomerReservation(user, tableNumber, numberOfGuests, reservationTime) ==
  /\ Quiet
  /\ Len(reservations) < MaxReservations
  /\ LET r == reservationError("createCustomerReservation", tableNumber,
                               numberOfGuests, reservationTime)
     IN /\ res' = r
        /\ reservations' =
             IF r.code = 201
             THEN Append(reservations,
                         NewReservation(tableNumber, reservationTime, TRUE,
                                        "pending", user))
             ELSE reservations
  /\ whatsapp' = <<>>
  /\ UNCHANGED <<dishes, orders, bills, today, req>>

ReservationIds == 1..MaxReservations
ApprovalActions == {"approve", "reject", "other"}

\* approveCustomerReservation: the message is sent after reservation.save()
approveCustomerReservation(id, action) ==
  /\ Quiet
  /\ IF action \notin {"approve", "reject"}
     THEN /\ res' = Response("approveCustomerReservation", 400, "action")
          /\ UNCHANGED reservations
          /\ whatsapp' = <<>>
     ELSE IF id \notin DOMAIN reservations
     THEN /\ res' = Response("approveCustomerReservation", 404, "not found")
          /\ UNCHANGED reservations
          /\ whatsapp' = <<>>
     ELSE IF ~ reservations[id].isCustomerReservation
     THEN /\ res' = Response("approveCustomerReservation", 400, "not customer")
          /\ UNCHANGED reservations
          /\ whatsapp' = <<>>
     ELSE IF reservations[id].status # "pending"
     THEN /\ res' = Response("approveCustomerReservation", 400, "not pending")
          /\ UNCHANGED reservations
          /\ whatsapp' = <<>>
     ELSE /\ reservations' =
               IF action = "approve"
               THEN [reservations EXCEPT ![id].status = "confirmed",
                                         ![id].approvedBy = Staff,
                                         ![id].approvedAt = today]
               ELSE [reservations EXCEPT ![id].status = "cancelled"]
          /\ IF action = "approve"
             THEN \E result \in WhatsAppResults :
                    whatsapp' =
                      <<sendWhatsAppMessage("reservation approved", result)>>
             ELSE whatsapp' = <<>>
          /\ res' = Response("approveCustomerReservation", 200, "")
  /\ UNCHANGED <<dishes, orders, bills, today, req>>

\* ------------------------------------------- reservation creation, in steps
\* the validations and Reservation.findOne of a create handler; the request
\* then holds the document it is about to create
reservationCheck(r, isCustomer, tableNumber, numberOfGuests, reservationTime) ==
  /\ req[r].pc = "idle"
  /\ LET op == IF isCustomer THEN "createCustomerReservation"
               ELSE "createReservation"
         e == reservationError(op, tableNumber, numberOfGuests,
                               reservationTime)
     IN IF e.code # 201
        THEN /\ res' = e
             /\ req' = [req EXCEPT ![r].pc = "refused"]
        ELSE /\ req' = [req EXCEPT ![r] =
                          [pc |-> "create",
                           order |-> <<IF isCustomer
                                       THEN NewReservation(
                                              tableNumber, reservationTime,
                                              TRUE, "pending", "alice")
                                       ELSE NewReservation(
                                              tableNumber, reservationTime,
                                              FALSE, "confirmed", Staff)>>,
                           bill |-> <<>>]]
             /\ UNCHANGED res
  /\ whatsapp' = <<>>
  /\ UNCHANGED <<dishes, orders, bills, today, reservations>>

\* Reservation.create and the 201 answer
reservationCreate(r) ==
  /\ req[r].pc = "create"
  /\ reservations' = Append(reservations, req[r].order[1])
  /\ res' = Response(IF req[r].order[1].isCustomerReservation
                     THEN "createCustomerReservation"
                     ELSE "createReservation", 201, "")
  /\ req' = [req EXCEPT ![r].pc = "created"]
  /\ whatsapp' = <<>>
  /\ UNCHANGED <<dishes, orders, bills, today>>

\* ---------------------------------------------------- updateReservationStatus
RequestReservationStatuses == ReservationStatuses \cup {"other"}

\* the reservation after `reservation.status = status` and the approval
\* details of a customer reservation confirmed from pending
reservationStatusSet(reservation, status) ==
  IF status = "confirmed" /\ reservation.isCustomerReservation
     /\ reservation.status = "pending"
  THEN [reservation EXCEPT !.status = status,
                           !.approvedBy = Staff,
                           !.approvedAt = today]
  ELSE [reservation EXCEPT !.status = status]

\* updateReservationStatus: the message is sent after reservation.save()
updateReservationStatus(id, status) ==
  /\ Quiet
  /\ IF id \notin DOMAIN reservations
     THEN /\ res' = Response("updateReservationStatus", 404, "not found")
          /\ UNCHANGED reservations
          /\ whatsapp' = <<>>
     ELSE IF status \notin ReservationStatuses
     THEN /\ res' = Response("updateReservationStatus", 400, "invalid status")
          /\ UNCHANGED reservations
          /\ whatsapp' = <<>>
     ELSE /\ reservations' =
               [reservations EXCEPT
                  ![id] = reservationStatusSet(reservations[id], status)]
          /\ IF status = "confirmed" /\ reservations[id].status # "confirmed"
             THEN \E result \in WhatsAppResults :
                    whatsapp' =
                      <<sendWhatsAppMessage("reservation confirmed", result)>>
             ELSE whatsapp' = <<>>
          /\ res' = Response("updateReservationStatus", 200, "")
  /\ UNCHANGED <<dishes, orders, bills, today, req>>

\* -------------------------------------------------- updateCustomerReservation
\* a request body without tableNumber
NoTable == ""

\* mutation: the conflict query of the update looks at pending reservations
\* only
existingOtherReservationPendingOnly(id, tableNumber, reservationTime) ==
  \E k \in DOMAIN reservations :
    /\ k # id
    /\ reservations[k].tableNumber = tableNumber
    /\ reservations[k].reservationTime >= reservationTime - ConflictWindowHours
    /\ reservations[k].reservationTime <= reservationTime + ConflictWindowHours
    /\ reservations[k].status \in {"pending"}

\* Reservation.findOne({_id: {$ne: id}, tableNumber, reservationTime in the
\* window, status in pending/confirmed/seated})
existingOtherReservation(id, tableNumber, reservationTime) ==
  \E k \in DOMAIN reservations :
    /\ k # id
    /\ reservations[k].tableNumber = tableNumber
    /\ reservations[k].reservationTime >= reservationTime - ConflictWindowHours
    /\ reservations[k].reservationTime <= reservationTime + ConflictWindowHours
    /\ reservations[k].status \in ActiveStatuses

\* updateCustomerReservation: tableNumber and reservationTime of the body,
\* each of them optional
updateCustomerReservation(user, id, tableNumber, reservationTime) ==
  /\ Quiet
  /\ IF id \notin DOMAIN reservations
     THEN /\ res' = Response("updateCustomerReservation", 404, "not found")
          /\ UNCHANGED reservations
     ELSE IF reservations[id].reservedBy # user
     THEN /\ res' = Response("updateCustomerReservation", 404, "not found")
          /\ UNCHANGED reservations
     ELSE IF reservations[id].status # "pending"
     THEN /\ res' = Response("updateCustomerReservation", 400, "not pending")
          /\ UNCHANGED reservations
     ELSE IF tableNumber # NoTable /\ tableNumber \notin Tables
     THEN /\ res' = Response("updateCustomerReservation", 400, "invalid table")
          /\ UNCHANGED reservations
     ELSE IF /\ tableNumber # NoTable
             /\ tableNumber # reservations[id].tableNumber
             /\ existingOtherReservation(
                  id, tableNumber,
                  IF reservationTime # Undefined THEN reservationTime
                  ELSE reservations[id].reservationTime)
     THEN /\ res' = Response("updateCustomerReservation", 409, "conflict")
          /\ UNCHANGED reservations
     ELSE /\ reservations' =
               [reservations EXCEPT
                  ![id].tableNumber =
                     IF tableNumber # NoTable THEN tableNumber ELSE @,
                  ![id].reservationTime =
                     IF reservationTime # Undefined THEN reservationTime
                     ELSE @]
          /\ res' = Response("updateCustomerReservation", 200, "")
  /\ whatsapp' = <<>>
  /\ UNCHANGED <<dishes, orders, bills, today, req>>

\* -------------------------------------------------- cancelCustomerReservation
\* mutation: a seated reservation can still be cancelled
CancellableStatusesWithSeated == {"pending", "confirmed", "seated"}

\* ['pending', 'confirmed'].includes(reservation.status)
CancellableStatuses == {"pending", "confirmed"}

cancelCustomerReservation(user, id) ==
  /\ Quiet
  /\ IF id \notin DOMAIN reservations
     THEN /\ res' = Response("cancelCustomerReservation", 404, "not found")
          /\ UNCHANGED reservations
     ELSE IF reservations[id].reservedBy # user
     THEN /\ res' = Response("cancelCustomerReservation", 404, "not found")
          /\ UNCHANGED reservations
     ELSE IF reservations[id].status \notin CancellableStatuses
     THEN /\ res' = Response("cancelCustomerReservation", 400, "status")
          /\ UNCHANGED reservations
     ELSE /\ reservations' = [reservations EXCEPT ![id].status = "cancelled"]
          /\ res' = Response("cancelCustomerReservation", 200, "")
  /\ whatsapp' = <<>>
  /\ UNCHANGED <<dishes, orders, bills, today, req>>

\* --------------------------------------------------------- getAvailableTables
\* conflictingReservations.map(res => res.tableNumber)
reservedTableNumbers(reservationTime) ==
  {reservations[k].tableNumber :
     k \in {j \in DOMAIN reservations :
              /\ reservations[j].reservationTime
                   >= reservationTime - ConflictWindowHours
              /\ reservations[j].reservationTime
                   <= reservationTime + ConflictWindowHours
              /\ reservations[j].status \in ActiveStatuses}}

\* ALL_TABLE_NUMBERS.filter(tableNum => !reservedTableNumbers.includes(...))
availableTableNumbers(reservationTime) ==
  {tableNum \in Tables : tableNum \notin reservedTableNumbers(reservationTime)}

\* getAvailableTables: a query, the answer carries the requested time and
\* the available tables
getAvailableTables(reservationTime) ==
  /\ Quiet
  /\ res' = IF reservationTime = Undefined
            THEN Response("getAvailableTables", 400, "time required")
            ELSE [op |-> "getAvailableTables", code |-> 200,
                  requestedTime |-> reservationTime,
                  availableTables |-> availableTableNumbers(reservationTime)]
  /\ whatsapp' = <<>>
  /\ UNCHANGED <<dishes, orders, bills, today, req, reservations>>

\* -------------------------------------------------------------------- clock
\* time passes between two requests; new Date() reads it
Tick ==
  /\ Quiet
  /\ today < MaxDay
  /\ today' = today + 1
  /\ UNCHANGED <<dishes, orders, bills, req, res, reservations, whatsapp>>

\* ------------------------------------ updateOrderItemStatus, two requests
\* order.save() of a document read earlier: the hook runs on the request's
\* copy, and the update writes the paths that copy modified (an item's
\* status, orderStatus, totalAmount) onto the stored document
saveModifiedPaths(stored, base, doc) ==
  LET hooked == orderSchemaPreSave(base, doc, FALSE, dishes)
  IN [stored EXCEPT
        !.items = [i \in DOMAIN stored.items |->
                     IF hooked.items[i].status # base.items[i].status
                     THEN [stored.items[i] EXCEPT
                             !.status = hooked.items[i].status]
                     ELSE stored.items[i]],
        !.orderStatus = IF hooked.orderStatus # base.orderStatus
                        THEN hooked.orderStatus ELSE @,
        !.totalAmount = IF hooked.totalAmount # base.totalAmount
                        THEN hooked.totalAmount ELSE @]

\* a request that has answered; it keeps what it read and what it asked for
DoneReq(order, itemId, status) ==
  [pc |-> "done", order |-> <<order>>, bill |-> <<itemId, status>>]

\* Order.findById and the synchronous part of the handler up to order.save()
itemUpdateRead(r, itemId, status) ==
  /\ req[r].pc = "idle"
  /\ orders # <<>>
  /\ LET order == orders[1] IN
       IF itemId \notin DOMAIN order.items
       THEN /\ res' = Response("updateOrderItemStatus", 404, "item not found")
            /\ req' = [req EXCEPT ![r] = DoneReq(order, itemId, status)]
       ELSE IF status \notin validItemStatuses
       THEN /\ res' = Response("updateOrderItemStatus", 400, "invalid status")
            /\ req' = [req EXCEPT ![r] = DoneReq(order, itemId, status)]
       ELSE IF order.orderStatus = "completed"
               \/ order.orderStatus = "cancelled" \/ order.isBilled
       THEN /\ res' = Response("updateOrderItemStatus", 400, "closed")
            /\ req' = [req EXCEPT ![r] = DoneReq(order, itemId, status)]
       ELSE /\ req' = [req EXCEPT ![r] =
                         [pc |-> "saveItem",
                          order |-> <<order,
                                      itemStatusUpdated(order, itemId, status)>>,
                          bill |-> <<itemId, status>>]]
            /\ UNCHANGED res
  /\ UNCHANGED <<dishes, orders, bills, today, reservations>>
  /\ whatsapp' = <<>>

\* await order.save(); res.json(populatedOrder)
itemUpdateSave(r) ==
  /\ req[r].pc = "saveItem"
  /\ orders' = <<saveModifiedPaths(orders[1], req[r].order[1],
                                    req[r].order[2])>>
  /\ req' = [req EXCEPT ![r] = DoneReq(req[r].order[1], req[r].bill[1],
                                       req[r].bill[2])]
  /\ res' = Response("updateOrderItemStatus", 200, "")
  /\ UNCHANGED <<dishes, bills, today, reservations>>
  /\ whatsapp' = <<>>

\* ------------------------------- cancelOrder and updateOrderStatus, in steps
\* Order.findById, the guards and the assignments of cancelOrder, up to
\* order.save(); the request holds the order as read and as modified
cancelOrderRead(r) ==
  /\ req[r].pc = "idle"
  /\ orders # <<>>
  /\ LET order == orders[1] IN
       IF order.isBilled \/ order.orderStatus = "completed"
       THEN /\ res' = Response("cancelOrder", 400, "closed")
            /\ UNCHANGED req
       ELSE LET items1 == [i \in DOMAIN order.items |->
                             IF order.items[i].status # "declined"
                             THEN [order.items[i] EXCEPT !.status = "cancelled"]
                             ELSE order.items[i]]
                new == [order EXCEPT !.orderStatus = "cancelled",
                                     !.items = items1]
            IN /\ req' = [req EXCEPT ![r] = [pc |-> "saveDoc",
                                             order |-> <<order, new>>,
                                             bill |-> <<"cancelOrder">>]]
               /\ UNCHANGED res
  /\ UNCHANGED <<dishes, orders, bills, today, reservations>>
  /\ whatsapp' = <<>>

\* the same part of updateOrderStatus
updateOrderStatusRead(r, status) ==
  /\ req[r].pc = "idle"
  /\ orders # <<>>
  /\ LET order == orders[1] IN
       IF order.isBilled \/ order.orderStatus = "completed"
          \/ order.orderStatus = "cancelled"
       THEN /\ res' = Response("updateOrderStatus", 400, "closed")
            /\ UNCHANGED req
       ELSE IF status \notin validTransitions(order.orderStatus)
       THEN /\ res' = Response("updateOrderStatus", 400, "invalid transition")
            /\ UNCHANGED req
       ELSE /\ req' = [req EXCEPT ![r] =
                         [pc |-> "saveDoc",
                          order |-> <<order,
                                      [order EXCEPT !.orderStatus = status]>>,
                          bill |-> <<"updateOrderStatus">>]]
            /\ UNCHANGED res
  /\ UNCHANGED <<dishes, orders, bills, today, reservations>>
  /\ whatsapp' = <<>>

\* await order.save() of either handler, and its answer
orderDocSave(r) ==
  /\ req[r].pc = "saveDoc"
  /\ orders' = <<saveModifiedPaths(orders[1], req[r].order[1],
                                    req[r].order[2])>>
  /\ res' = Response(req[r].bill[1], 200, "")
  /\ req' = [req EXCEPT ![r] = IdleReq]
  /\ UNCHANGED <<dishes, bills, today, reservations>>
  /\ whatsapp' = <<>>

OrderNext ==
  \/ \E items \in RequestItems : createOrder(items)
  \/ \E i \in ItemIds, s \in RequestStatuses : updateOrderItemStatus(i, s)
  \/ \E s \in OrderStatuses : updateOrderStatus(s)
  \/ cancelOrder
  \/ \E i \in ItemIds : requestItemCancellation(i)
  \/ \E i \in ItemIds, a \in CancellationActions : manageItemCancellation(i, a)

\* order engine, catalog prices held constant
Next == OrderNext

Spec == Init /\ [][Next]_vars

\* createOrder requests of bounded total quantity
SmallRequestItems ==
  {items \in RequestItems :
     SumFrom([i \in DOMAIN items |-> items[i].quantity], 1, Len(items))
       <= MaxOrderQty}

\* order engine with catalog price changes made after the order was placed
PriceNext ==
  \/ \E items \in SmallRequestItems : createOrder(items)
  \/ \E i \in ItemIds, s \in RequestStatuses : updateOrderItemStatus(i, s)
  \/ \E s \in OrderStatuses : updateOrderStatus(s)
  \/ cancelOrder
  \/ \E i \in ItemIds : requestItemCancellation(i)
  \/ \E i \in ItemIds, a \in CancellationActions : manageItemCancellation(i, a)
  \/ orders # <<>> /\ \E d \in Dishes, p \in Prices : updateDish(d, p)

SpecPrice == Init /\ [][PriceNext]_vars

\* order engine and billing engine, one request at a time
BillingNext ==
  \/ \E items \in SmallRequestItems : createOrder(items)
  \/ \E i \in ItemIds, s \in RequestStatuses : updateOrderItemStatus(i, s)
  \/ \E s \in OrderStatuses : updateOrderStatus(s)
  \/ cancelOrder
  \/ \E i \in ItemIds : requestItemCancellation(i)
  \/ \E i \in ItemIds, a \in CancellationActions : manageItemCancellation(i, a)
  \/ generateBill
  \/ \E splits \in SplitRequests : splitBill(splits)

SpecBilling == Init /\ [][BillingNext]_vars

\* two generateBill requests in flight on one order
ConcNext ==
  \/ \E items \in SmallRequestItems : createOrder(items)
  \/ \E i \in ItemIds, s \in RequestStatuses : updateOrderItemStatus(i, s)
  \/ \E r \in Reqs : generateBillRead(r)
  \/ \E r \in Reqs : generateBillSaveBill(r)
  \/ \E r \in Reqs : generateBillSaveOrder(r)

SpecConc == Init /\ [][ConcNext]_vars

\* Dish documents the schema accepts for a dish of regular price MaxPrice:
\* an offer (isSpecial) needs specialPrice >= 0 and both dates; a dish that
\* is not on offer carries either no offer fields or a whole former offer
SpecialDishes ==
  {d \in [price : {MaxPrice}, isAvailable : {TRUE}, isSpecial : BOOLEAN,
          specialPrice : {Undefined, 0, 1},
          specialStartDate : {Undefined, 1},
          specialEndDate : {Undefined, 1, 2}] :
     LET set == {d.specialPrice # Undefined, d.specialStartDate # Undefined,
                 d.specialEndDate # Undefined}
     IN IF d.isSpecial THEN set = {TRUE} ELSE Cardinality(set) = 1}

SpecialCatalogs ==
  {[d \in Dishes |-> IF d = "dishA" THEN a ELSE NewDish(1)] :
     a \in SpecialDishes}

InitSpecial ==
  /\ dishes \in SpecialCatalogs
  /\ orders = <<>>
  /\ bills = <<>>
  /\ today = 0
  /\ req = [r \in Reqs |-> IdleReq]
  /\ res = Response("none", 0, "")
  /\ reservations = <<>>
  /\ whatsapp = <<>>

\* billing of an order while the clock runs through a special offer
SpecialNext ==
  \/ \E items \in SmallRequestItems : createOrder(items)
  \/ \E i \in ItemIds, s \in {"accepted", "declined"} :
       updateOrderItemStatus(i, s)
  \/ generateBill
  \/ \E splits \in SplitRequests : splitBill(splits)
  \/ Tick

SpecSpecial == InitSpecial /\ [][SpecialNext]_vars

\* splitBill requests of two portions, one unit of one dish each
UnitSplits ==
  {<<<<[dish |-> a, quantity |-> 1]>>, <<[dish |-> b, quantity |-> 1]>>>> :
     a, b \in Dishes}

\* bills and their payment, one request at a time
PayNext ==
  \/ \E items \in SmallRequestItems : createOrder(items)
  \/ \E i \in ItemIds, s \in {"accepted", "declined"} :
       updateOrderItemStatus(i, s)
  \/ generateBill
  \/ \E splits \in UnitSplits : splitBill(splits)
  \/ \E b \in BillIds, p \in PaymentStatuses : updateBillPaymentStatus(b, p)

SpecPay == Init /\ [][PayNext]_vars

\* the three handlers that send a WhatsApp message, with the requests that
\* lead to them: one single-line order, reservations of table T-1
NotifyNext ==
  \/ createOrder(<<[dish |-> "dishA", quantity |-> 1]>>)
  \/ \E s \in {"accepted", "preparing"} : updateOrderItemStatus(1, s)
  \/ requestItemCancellation(1)
  \/ \E a \in CancellationActions : manageItemCancellation(1, a)
  \/ generateBill
  \/ \E b \in BillIds, p \in PaymentStatuses : updateBillPaymentStatus(b, p)
  \/ \E tbl \in {"T-1", UnknownTable}, g \in {-1, 0, 1}, t \in {0, MaxTime} :
       createReservation(tbl, g, t)
  \/ \E tbl \in {"T-1", UnknownTable}, g \in {-1, 0, 1}, t \in {0, MaxTime} :
       createCustomerReservation("alice", tbl, g, t)
  \/ \E id \in ReservationIds, a \in ApprovalActions :
       approveCustomerReservation(id, a)

SpecNotify == Init /\ [][NotifyNext]_vars

\* two updateOrderItemStatus requests in flight on one order, request 1 on
\* item 1 and request 2 on item 2
ItemConcNext ==
  \/ \E items \in SmallRequestItems : createOrder(items)
  \/ \E r \in Reqs, s \in RequestStatuses : itemUpdateRead(r, r, s)
  \/ \E r \in Reqs : itemUpdateSave(r)

SpecItemConc == Init /\ [][ItemConcNext]_vars

\* order placement against a catalog whose dishes go in and out of
\* availability
AvailNext ==
  \/ \E items \in SmallRequestItems : createOrder(items)
  \/ \E d \in Dishes \cup {UnknownDish} : toggleDishAvailability(d)
  \/ \E i \in ItemIds, s \in RequestStatuses : updateOrderItemStatus(i, s)

SpecAvail == Init /\ [][AvailNext]_vars

\* reservation times on both sides of the conflict window of time 0: at its
\* bound and one hour past it
ReserveTimes == {0, ConflictWindowHours, MaxTime}

\* the reservation handlers of staff, customers and admin, one request at a
\* time
ReserveNext ==
  \/ \E tbl \in Tables, t \in ReserveTimes : createReservation(tbl, 1, t)
  \/ \E tbl \in Tables, t \in ReserveTimes :
       createCustomerReservation("alice", tbl, 1, t)
  \/ \E u \in Customers, id \in ReservationIds,
        tbl \in Tables \cup {NoTable, UnknownTable},
        t \in ReserveTimes \cup {Undefined} :
       updateCustomerReservation(u, id, tbl, t)
  \/ \E u \in Customers, id \in ReservationIds :
       cancelCustomerReservation(u, id)
  \/ \E id \in ReservationIds, a \in ApprovalActions :
       approveCustomerReservation(id, a)
  \/ \E id \in ReservationIds, s \in RequestReservationStatuses :
       updateReservationStatus(id, s)
  \/ \E t \in ReserveTimes \cup {Undefined} : getAvailableTables(t)

SpecReserve == Init /\ [][ReserveNext]_vars

\* the customer's handlers, with the staff bookings and the admin decisions
\* they meet
CustomerNext ==
  \/ \E tbl \in Tables, t \in ReserveTimes : createReservation(tbl, 1, t)
  \/ \E tbl \in Tables, t \in ReserveTimes :
       createCustomerReservation("alice", tbl, 1, t)
  \/ \E u \in Customers, id \in ReservationIds,
        tbl \in Tables \cup {NoTable, UnknownTable},
        t \in ReserveTimes \cup {Undefined} :
       updateCustomerReservation(u, id, tbl, t)
  \/ \E u \in Customers, id \in ReservationIds :
       cancelCustomerReservation(u, id)
  \/ \E id \in ReservationIds, a \in {"approve", "reject"} :
       approveCustomerReservation(id, a)

SpecCustomer == Init /\ [][CustomerNext]_vars

\* two reservation-creation requests in flight
ReserveConcNext ==
  \/ \E r \in Reqs, c \in BOOLEAN, tbl \in Tables, t \in ReserveTimes :
       reservationCheck(r, c, tbl, 1, t)
  \/ \E r \in Reqs : reservationCreate(r)

SpecReserveConc == Init /\ [][ReserveConcNext]_vars

\* generateBill in flight together with cancelOrder or updateOrderStatus on
\* the same order
BillConcNext ==
  \/ \E items \in SmallRequestItems : createOrder(items)
  \/ \E i \in ItemIds, s \in {"accepted", "declined"} :
       updateOrderItemStatus(i, s)
  \/ \E r \in Reqs : generateBillRead(r)
  \/ \E r \in Reqs : generateBillSaveBill(r)
  \/ \E r \in Reqs : generateBillSaveOrder(r)
  \/ \E r \in Reqs : cancelOrderRead(r)
  \/ \E r \in Reqs, s \in OrderStatuses : updateOrderStatusRead(r, s)
  \/ \E r \in Reqs : orderDocSave(r)

SpecBillConc == Init /\ [][BillConcNext]_vars

\* item cancellations decided by the admin, with order.save() succeeding or
\* rejecting
SaveFailNext ==
  \/ \E items \in SmallRequestItems : createOrder(items)
  \/ \E i \in ItemIds, s \in {"accepted", "preparing"} :
       updateOrderItemStatus(i, s)
  \/ \E i \in ItemIds : requestItemCancellation(i)
  \/ \E i \in ItemIds, a \in CancellationActions :
       manageItemCancellation(i, a)
  \/ \E i \in ItemIds, a \in CancellationActions :
       manageItemCancellationSaveRejected(i, a)

SpecSaveFail == Init /\ [][SaveFailNext]_vars

\* billing of an order while offers are switched on and off and the clock
\* runs
ToggleNext ==
  \/ \E items \in SmallRequestItems : createOrder(items)
  \/ \E i \in ItemIds, s \in {"accepted", "declined"} :
       updateOrderItemStatus(i, s)
  \/ \E d \in Dishes \cup {UnknownDish}, body \in SpecialBodies :
       toggleDishSpecial(d, body)
  \/ generateBill
  \/ Tick

SpecToggle == InitSpecial /\ [][ToggleNext]_vars

\* =================================================================== claims
HasOrder == orders # <<>>

\* accepted-lineage statuses (glossary): the statuses counted toward totals
AcceptedLineage == {"accepted", "preparing", "ready"}
TheOrder == orders[1]

\* the step just taken was a call of one of the per-item handlers
PerItemOps ==
  {"updateOrderItemStatus", "requestItemCancellation",
   "manageItemCancellation"}

\* sum of quantity x catalog price over the items whose status is in S
StatusTotal(order, catalog, S) ==
  SumFrom([i \in DOMAIN order.items |->
             IF order.items[i].status \in S
             THEN order.items[i].quantity * catalog[order.items[i].dish].price
             ELSE 0],
          1, Len(order.items))

\* C1 (Spec, prices constant): in every state the order's totalAmount is the
\* sum of quantity x unit price over exactly the items whose status is
\* accepted, preparing or ready.
C1_TotalIsAcceptedLineageSum ==
  HasOrder =>
    TheOrder.totalAmount = StatusTotal(TheOrder, dishes, AcceptedLineage)

\* C2 (SpecBilling): a splitBill call that fails persists no sub-bill and
\* leaves the order as it was (unbilled, status unchanged).
C2_FailedSplitPersistsNothing ==
  [][(res'.op = "splitBill" /\ res'.code # 201) =>
       (bills' = bills /\ orders' = orders)]_vars

NonSplitBills == {b \in DOMAIN bills : ~ bills[b].isSplitBill}
SplitBills == {b \in DOMAIN bills : bills[b].isSplitBill}

\* C3 (SpecConc): once both generateBill requests on the order have finished,
\* at most one non-split Bill exists for it.
C3_AtMostOneNonSplitBill ==
  Quiet => Cardinality(NonSplitBills) <= 1

\* C4 (SpecBilling): the order never has both a non-split Bill and split
\* Bills, and all of its split Bills carry the same split-group identifier.
C4_NeverBothKindsOneSplitGroup ==
  /\ ~ (NonSplitBills # {} /\ SplitBills # {})
  /\ \A a, b \in SplitBills :
       bills[a].splitGroupIdentifier = bills[b].splitGroupIdentifier

NoPendingItem(order) ==
  \A i \in DOMAIN order.items : order.items[i].status # "pending"

\* at least one accepted-lineage item, and every such item is ready
AllLineageReady(order) ==
  /\ \E i \in DOMAIN order.items : order.items[i].status \in AcceptedLineage
  /\ \A i \in DOMAIN order.items :
       order.items[i].status \in AcceptedLineage =>
         order.items[i].status = "ready"

\* C5 (Spec): an item-status update that leaves no pending item and every
\* accepted-lineage item (at least one) ready sets orderStatus to ready; and
\* orderStatus is ready only when every accepted-lineage item is ready and
\* one exists.
C5_ReadyIffAllLineageReady ==
  [][orders' # <<>> =>
       /\ (/\ res'.op = "updateOrderItemStatus"
           /\ res'.code = 200
           /\ NoPendingItem(orders'[1])
           /\ AllLineageReady(orders'[1]))
          => orders'[1].orderStatus = "ready"
       /\ orders'[1].orderStatus = "ready" => AllLineageReady(orders'[1])]_vars

\* C6 (Spec): for an order that is neither cancelled nor completed,
\* orderStatus is pending if and only if at least one item is pending.
C6_PendingIffSomeItemPending ==
  (HasOrder /\ TheOrder.orderStatus \notin {"cancelled", "completed"}) =>
    (TheOrder.orderStatus = "pending" <=> ~ NoPendingItem(TheOrder))

\* an unbilled two-item order with one item ready and the other declined
ReadyAndDeclined(order) ==
  /\ ~ order.isBilled
  /\ Len(order.items) = 2
  /\ \E i, j \in DOMAIN order.items :
       order.items[i].status = "ready" /\ order.items[j].status = "declined"

ReadyItem(order) ==
  order.items[CHOOSE i \in DOMAIN order.items : order.items[i].status = "ready"]

\* C7 (SpecBilling): generateBill on an unbilled order with one item ready and
\* the other declined succeeds with exactly one BillItem (the ready item's
\* dish, quantity and price) and total quantity x price; on an unbilled order
\* it fails only when no item is accepted, preparing or ready.
C7_GenerateBillBillsAcceptedLineage ==
  [][(res'.op = "generateBill" /\ HasOrder /\ ~ TheOrder.isBilled) =>
       /\ res'.code = 400 =>
            \A i \in DOMAIN TheOrder.items :
              TheOrder.items[i].status \notin AcceptedLineage
       /\ ReadyAndDeclined(TheOrder) =>
            /\ res'.code = 201
            /\ Len(bills') = Len(bills) + 1
            /\ LET b == bills'[Len(bills')]
                   it == ReadyItem(TheOrder)
               IN /\ b.items = <<[dish |-> it.dish, quantity |-> it.quantity,
                                  price |-> dishes[it.dish].price]>>
                  /\ b.totalAmount = it.quantity * dishes[it.dish].price]_vars

TerminalItemStatuses == {"ready", "declined", "cancelled"}

\* C8 (Spec): no per-item operation changes the status of an item whose
\* status is ready, declined or cancelled.
C8_TerminalItemStatusesStay ==
  [][(HasOrder /\ res'.op \in PerItemOps) =>
       \A i \in DOMAIN TheOrder.items :
         TheOrder.items[i].status \in TerminalItemStatuses =>
           orders'[1].items[i].status = TheOrder.items[i].status]_vars

\* C9 (Spec): on a pending item, updateOrderItemStatus with a target other
\* than accepted or declined, and requestItemCancellation, are rejected and
\* leave the item pending; a per-item operation moves an item out of pending
\* only to accepted or declined.
C9_PendingLeavesOnlyByAcceptOrDecline ==
  [][HasOrder =>
       \A i \in DOMAIN TheOrder.items :
         TheOrder.items[i].status = "pending" =>
           /\ ((\E s \in ItemStatuses \ {"accepted", "declined"} :
                  updateOrderItemStatus(i, s))
               \/ requestItemCancellation(i))
              => (res'.code >= 400 /\ orders' = orders)
           /\ res'.op \in PerItemOps =>
                orders'[1].items[i].status
                  \in {"pending", "accepted", "declined"}]_vars

\* C10 (SpecPrice): after a catalog price change made once the order exists,
\* every item mutation leaves the total at quantity x the price in force when
\* the order was placed, summed over the items the total counts.
C10_TotalUsesOrderTimePrice ==
  [][(HasOrder /\ orders'[1].items # TheOrder.items) =>
       orders'[1].totalAmount =
         StatusTotal(orders'[1], InitialCatalog, {"accepted"})]_vars

\* price resolution as specified: the special price exactly when the dish is
\* on offer, the special price and both range bounds are set, and t lies in
\* the range, both ends included
resolvePrice(dish, t) ==
  IF /\ dish.isSpecial
     /\ dish.specialPrice # Undefined
     /\ dish.specialStartDate # Undefined
     /\ dish.specialEndDate # Undefined
     /\ dish.specialStartDate <= t
     /\ t <= dish.specialEndDate
  THEN dish.specialPrice
  ELSE dish.price

\* the bills the step just taken added to the collection
NewBillIds == (Len(bills) + 1)..Len(bills')

BillsTotal(bs, ids) ==
  SumFrom([b \in DOMAIN bs |-> IF b \in ids THEN bs[b].totalAmount ELSE 0],
          1, Len(bs))

\* quantity of dish d on one bill, and on the bills numbered ids
BilledQuantity(bill, d) ==
  SumFrom([k \in DOMAIN bill.items |->
             IF bill.items[k].dish = d THEN bill.items[k].quantity ELSE 0],
          1, Len(bill.items))

BillsQuantity(bs, ids, d) ==
  SumFrom([b \in DOMAIN bs |-> IF b \in ids THEN BilledQuantity(bs[b], d) ELSE 0],
          1, Len(bs))

\* sum over the order's accepted items of price resolved at t x quantity
AcceptedResolvedTotal(order, catalog, t) ==
  SumFrom([i \in DOMAIN order.items |->
             IF order.items[i].status = "accepted"
             THEN order.items[i].quantity
                    * resolvePrice(catalog[order.items[i].dish], t)
             ELSE 0],
          1, Len(order.items))

\* accepted quantity of dish d, summed over all accepted items of that dish
AcceptedDishQuantity(order, d) ==
  SumFrom([i \in DOMAIN order.items |->
             IF order.items[i].status = "accepted" /\ order.items[i].dish = d
             THEN order.items[i].quantity ELSE 0],
          1, Len(order.items))

BillOps == {"generateBill", "splitBill"}

\* C13 (SpecBilling, one request at a time): a successful generateBill or
\* splitBill marks the order billed, and every generateBill or splitBill
\* call on a billed order fails, creates no Bill and leaves the order and
\* the existing bills unchanged.
C13_BilledOrderRefusesBilling ==
  [][(HasOrder /\ res'.op \in BillOps) =>
       /\ res'.code = 201 => orders'[1].isBilled
       /\ TheOrder.isBilled =>
            (res'.code >= 400 /\ bills' = bills /\ orders' = orders)]_vars

\* a generateBill call was refused on an order billed by a successful split
C13_Witness ==
  /\ HasOrder
  /\ TheOrder.isBilled
  /\ SplitBills # {}
  /\ res = Response("generateBill", 400, "")

\* C14 (SpecBilling, one request at a time): isBilled never goes back from
\* true to false, and in every state isBilled implies orderStatus completed.
C14_BilledIsMonotonicAndCompleted ==
  [][orders' # <<>> =>
       /\ (HasOrder /\ TheOrder.isBilled) => orders'[1].isBilled
       /\ orders'[1].isBilled => orders'[1].orderStatus = "completed"]_vars

\* a billed order on which a later handler has written (a cancellation
\* request pending at billing time was resolved)
C14_Witness ==
  /\ HasOrder
  /\ TheOrder.isBilled
  /\ res = Response("manageItemCancellation", 200, "")

\* C15 (Spec): an order whose orderStatus is cancelled has every item
\* cancelled or declined and totalAmount 0, whether cancelOrder or
\* updateOrderStatus cancelled it.
C15_CancelledOrderHasNoLiveItem ==
  (HasOrder /\ TheOrder.orderStatus = "cancelled") =>
    /\ \A i \in DOMAIN TheOrder.items :
         TheOrder.items[i].status \in {"cancelled", "declined"}
    /\ TheOrder.totalAmount = 0

RequestedThenRejected(order, i) ==
  cancellationResolved(cancellationRequested(order, i), i, "reject")

\* C17 (Spec): for an item in status accepted or preparing, a cancellation
\* request followed by its rejection leaves the item in the status it had
\* before the request.
C17_RejectRestoresPriorStatus ==
  HasOrder =>
    \A i \in DOMAIN TheOrder.items :
      (/\ TheOrder.items[i].status \in {"accepted", "preparing"}
       /\ ~ cancellationRefused(TheOrder, i))
      => RequestedThenRejected(TheOrder, i).items[i].status
           = TheOrder.items[i].status

\* C18 (SpecPay): a bill's paymentStatus changes only from pending to paid
\* or from pending to refunded; a paid or refunded bill is not moved to the
\* other value and no bill returns to pending.
C18_PaymentLeavesPendingOnly ==
  [][\A b \in DOMAIN bills :
       bills'[b].paymentStatus # bills[b].paymentStatus =>
         /\ bills[b].paymentStatus = "pending"
         /\ bills'[b].paymentStatus \in {"paid", "refunded"}]_vars

\* the step handed a payment message to sendWhatsAppMessage
PaymentMessages ==
  {m \in DOMAIN whatsapp' : whatsapp'[m].body = "bill paid"}

\* the step moved a bill from a value other than paid to paid
BecamePaid ==
  \E b \in DOMAIN bills :
    bills[b].paymentStatus # "paid" /\ bills'[b].paymentStatus = "paid"

\* C19 (SpecPay): a payment notification is emitted exactly on the
\* updateBillPaymentStatus calls that change paymentStatus from a value other
\* than paid to paid, one per such call; setting paid on a paid bill, or
\* setting refunded, emits none.
C19_NotifiedExactlyOnBecomingPaid ==
  [][/\ PaymentMessages # {} <=> BecamePaid
     /\ Cardinality(PaymentMessages) <= 1]_vars

\* a bill was refunded, then set to paid, and the call emitted a message
C19_Witness ==
  /\ res = Response("updateBillPaymentStatus", 200, "")
  /\ \E m \in DOMAIN whatsapp : whatsapp[m].body = "bill paid"
  /\ \E b \in DOMAIN bills : bills[b].paymentStatus = "paid"

\* the state change the message with this body reports has been persisted
ChangePersisted(body) ==
  CASE body = "cancellation approved" ->
         \E i \in DOMAIN TheOrder.items :
           /\ TheOrder.items[i].status = "cancellation_requested"
           /\ orders'[1].items[i].status = "cancelled"
    [] body = "cancellation rejected" ->
         \E i \in DOMAIN TheOrder.items :
           /\ TheOrder.items[i].status = "cancellation_requested"
           /\ orders'[1].items[i].status = "accepted"
    [] body = "bill paid" -> BecamePaid
    [] body = "reservation approved" ->
         \E id \in DOMAIN reservations :
           /\ reservations[id].status = "pending"
           /\ reservations'[id].status = "confirmed"
    [] OTHER -> FALSE

\* C20 (SpecNotify): when sendWhatsAppMessage returns false,
\* manageItemCancellation, updateBillPaymentStatus and
\* approveCustomerReservation still persist their state change and answer
\* with success.
C20_FailedNotificationKeepsChange ==
  [][\A m \in DOMAIN whatsapp' :
       (whatsapp' # whatsapp /\ ~ whatsapp'[m].sent) =>
         (res'.code = 200 /\ ChangePersisted(whatsapp'[m].body))]_vars

\* a cancellation was approved although its message could not be sent
C20_Witness ==
  /\ res = Response("manageItemCancellation", 200, "")
  /\ whatsapp = <<sendWhatsAppMessage("cancellation approved", FALSE)>>
  /\ \E i \in DOMAIN TheOrder.items : TheOrder.items[i].status = "cancelled"

\* the order is completed, cancelled or billed
ClosedOrder(order) ==
  order.orderStatus \in {"completed", "cancelled"} \/ order.isBilled

\* C21 (SpecBilling): updateOrderItemStatus fails and leaves the order
\* unchanged when the order is completed, cancelled or billed, when the named
\* item is not in the order, or when the target is no legal item status.
C21_RefusedItemUpdateChangesNothing ==
  [][(HasOrder /\ res'.op = "updateOrderItemStatus") =>
       \A i \in ItemIds, s \in RequestStatuses :
         (/\ \/ ClosedOrder(TheOrder)
             \/ i \notin DOMAIN TheOrder.items
             \/ s \notin ItemStatuses
          /\ updateOrderItemStatus(i, s))
         => (res'.code >= 400 /\ orders' = orders)]_vars

\* an item update was refused on a billed order
C21_Witness ==
  /\ HasOrder
  /\ TheOrder.isBilled
  /\ res = Response("updateOrderItemStatus", 400, "")

\* what one updateOrderItemStatus request leaves when it runs alone on order
SerialItemUpdate(order, itemId, status) ==
  IF \/ itemId \notin DOMAIN order.items
     \/ status \notin validItemStatuses
     \/ ClosedOrder(order)
  THEN order
  ELSE orderSchemaPreSave(order, itemStatusUpdated(order, itemId, status),
                          FALSE, dishes)

\* both requests have answered
BothDone == \A r \in Reqs : req[r].pc = "done"

\* the orders that running the two requests one after the other leaves, in
\* either order, from the order as the first of them read it
SerialOutcomes ==
  {SerialItemUpdate(
     SerialItemUpdate(req[a].order[1], req[a].bill[1], req[a].bill[2]),
     req[b].bill[1], req[b].bill[2]) : a, b \in Reqs} 

\* C22 (SpecItemConc): for every interleaving of two updateOrderItemStatus
\* requests on different items of one order, the final order is the one that
\* running the two requests one after the other, in some order, produces.
C22_ItemUpdatesSerialize ==
  BothDone => TheOrder \in SerialOutcomes

\* a line of a createOrder request names a dish the catalog cannot serve
UnservableLine(line) ==
  \/ line.dish \notin DOMAIN dishes
  \/ ~dishes[line.dish].isAvailable

\* C23 (SpecAvail): createOrder creates no order when any line of the request
\* names a dish that is missing from the catalog or whose isAvailable is
\* false.
C23_UnavailableDishRefused ==
  [][\A items \in SmallRequestItems :
       (/\ \E i \in DOMAIN items : UnservableLine(items[i])
        /\ createOrder(items))
       => (res'.code >= 400 /\ orders' = <<>>)]_vars

\* the order as createOrder must leave it
FreshOrder(order) ==
  /\ \A i \in DOMAIN order.items : order.items[i].status = "pending"
  /\ order.orderStatus = "pending"
  /\ ~order.isBilled
  /\ order.totalAmount = 0

\* C24 (SpecPrice): a successful createOrder stores an order whose items are
\* all pending, whose orderStatus is pending, whose isBilled is false and
\* whose totalAmount is 0 whatever the prices and quantities; and the
\* totalAmount leaves 0 only in a step after which some item is accepted.
C24_NewOrderStartsAtZero ==
  [][/\ (orders = <<>> /\ orders' # <<>>) => FreshOrder(orders'[1])
     /\ (HasOrder /\ TheOrder.totalAmount = 0 /\ orders'[1].totalAmount # 0)
          => \E i \in DOMAIN orders'[1].items :
                orders'[1].items[i].status = "accepted"]_vars

C24_Witness ==
  /\ HasOrder
  /\ res = Response("createOrder", 201, "")
  /\ \E i \in DOMAIN TheOrder.items :
        /\ TheOrder.items[i].quantity = MaxQty
        /\ dishes[TheOrder.items[i].dish].price = MaxPrice
  /\ TheOrder.totalAmount = 0

\* ------------------------------------------------------ reservation claims
Distance(t1, t2) == IF t1 >= t2 THEN t1 - t2 ELSE t2 - t1

ActiveReservation(k) == reservations[k].status \in ActiveStatuses

\* C25 (SpecReserve): in every reachable state no two distinct reservations
\* for the same table, both pending, confirmed or seated, have reservation
\* times within 2 hours of each other.
C25_NoTwoActiveReservationsInWindow ==
  \A j, k \in DOMAIN reservations :
    (/\ j # k
     /\ reservations[j].tableNumber = reservations[k].tableNumber
     /\ ActiveReservation(j)
     /\ ActiveReservation(k))
    => Distance(reservations[j].reservationTime,
                reservations[k].reservationTime) > 2

\* C26 (SpecReserve): when an active reservation for table T at t1 exists and
\* |t1 - t2| <= 4 hours, creating a reservation for T at t2, by staff or by a
\* customer, is answered with a conflict and creates no reservation.
C26_FourHourWindowRejects ==
  [][(res'.op \in {"createReservation", "createCustomerReservation"}) =>
       \A tbl \in Tables, t2 \in ReserveTimes :
         (/\ \E k \in DOMAIN reservations :
                /\ reservations[k].tableNumber = tbl
                /\ ActiveReservation(k)
                /\ Distance(reservations[k].reservationTime, t2) <= 4
          /\ \/ createReservation(tbl, 1, t2)
             \/ createCustomerReservation("alice", tbl, 1, t2))
         => (res'.code = 409 /\ reservations' = reservations)]_vars

\* C28 (SpecReserve): a table of the table list is in the answer of
\* getAvailableTables(t) if and only if createReservation for that table at
\* t passes its conflict check.
C28_AvailabilityAgreesWithConflictCheck ==
  (res.op = "getAvailableTables" /\ res.code = 200) =>
    \A tbl \in Tables :
      (tbl \in res.availableTables)
        <=> ~existingReservation(tbl, res.requestedTime)

C28_Witness ==
  /\ res.op = "getAvailableTables"
  /\ res.code = 200
  /\ res.availableTables = {"T-2"}
  /\ \E k \in DOMAIN reservations :
        /\ reservations[k].tableNumber = "T-1"
        /\ reservations[k].status = "seated"
        /\ Distance(reservations[k].reservationTime, res.requestedTime)
             = ConflictWindowHours

\* C29 (SpecReserve): every confirmed customer reservation has approvedBy
\* and approvedAt set, and no staff reservation has either of them set.
C29_ApprovalDetailsRecorded ==
  \A k \in DOMAIN reservations :
    /\ (reservations[k].isCustomerReservation
        /\ reservations[k].status = "confirmed")
       => (reservations[k].approvedBy # NoUser
           /\ reservations[k].approvedAt # Undefined)
    /\ ~reservations[k].isCustomerReservation
       => (reservations[k].approvedBy = NoUser
           /\ reservations[k].approvedAt = Undefined)

\* the reservation is the caller's and still pending
OwnPending(user, id) ==
  /\ id \in DOMAIN reservations
  /\ reservations[id].reservedBy = user
  /\ reservations[id].status = "pending"

\* another active reservation holds the table within 2 hours of the time
TableTaken(id, tbl, t) ==
  \E k \in DOMAIN reservations \ {id} :
    /\ reservations[k].tableNumber = tbl
    /\ ActiveReservation(k)
    /\ Distance(reservations[k].reservationTime, t) <= 2

\* C30 (SpecCustomer): updateCustomerReservation changes a reservation only
\* when it belongs to the caller and is pending, and changes no other
\* reservation; when the update moves it to another table that another active
\* reservation holds within 2 hours, the answer is a conflict and the
\* reservation is unchanged.
C30_CustomerUpdateGuarded ==
  [][(res'.op = "updateCustomerReservation") =>
       /\ (reservations' # reservations) =>
            \A u \in Customers, id \in ReservationIds,
               tbl \in Tables \cup {NoTable, UnknownTable},
               t \in ReserveTimes \cup {Undefined} :
              updateCustomerReservation(u, id, tbl, t) =>
                /\ OwnPending(u, id)
                /\ Len(reservations') = Len(reservations)
                /\ \A k \in DOMAIN reservations \ {id} :
                     reservations'[k] = reservations[k]
       /\ \A u \in Customers, id \in ReservationIds, tbl \in Tables,
             t \in ReserveTimes \cup {Undefined} :
            (/\ OwnPending(u, id)
             /\ tbl # reservations[id].tableNumber
             /\ TableTaken(id, tbl,
                           IF t # Undefined THEN t
                           ELSE reservations[id].reservationTime)
             /\ updateCustomerReservation(u, id, tbl, t))
            => (res'.code = 409 /\ reservations' = reservations)]_vars

C30_Witness ==
  /\ res = Response("updateCustomerReservation", 409, "")
  /\ \E id \in DOMAIN reservations : OwnPending("alice", id)

\* C27 (SpecReserveConc): of two interleaved reservation-creation requests
\* for the same table with reservation times within the conflict window, at
\* most one succeeds.
C27_AtMostOneCreationSucceeds ==
  (\A r \in Reqs : req[r].pc = "created") =>
    ~(/\ req[1].order[1].tableNumber = req[2].order[1].tableNumber
      /\ Distance(req[1].order[1].reservationTime,
                  req[2].order[1].reservationTime) <= ConflictWindowHours)

\* C31 (SpecReserve): cancelCustomerReservation answers success and sets the
\* status to cancelled when the reservation belongs to the caller and is
\* pending or confirmed; in every other case (seated, completed, cancelled,
\* another user's, unknown) it answers an error and changes nothing.
C31_CustomerCancelGuarded ==
  [][(res'.op = "cancelCustomerReservation") =>
       \A u \in Customers, id \in ReservationIds :
         cancelCustomerReservation(u, id) =>
           IF /\ id \in DOMAIN reservations
              /\ reservations[id].reservedBy = u
              /\ reservations[id].status \in {"pending", "confirmed"}
           THEN /\ res'.code = 200
                /\ reservations' =
                     [reservations EXCEPT ![id].status = "cancelled"]
           ELSE /\ res'.code >= 400
                /\ reservations' = reservations]_vars

C31_Witness ==
  /\ res = Response("cancelCustomerReservation", 400, "")
  /\ \E id \in DOMAIN reservations :
        /\ reservations[id].reservedBy = "alice"
        /\ reservations[id].status = "seated"

\* C32 (SpecReserve): a reservation created by createCustomerReservation
\* starts pending and one created by createReservation starts confirmed; a
\* customer reservation becomes confirmed only in a step of
\* approveCustomerReservation taken while it is pending, or in a step of
\* updateReservationStatus.
C32_ConfirmedOnlyByAdmin ==
  [][/\ (Len(reservations') = Len(reservations) + 1) =>
          LET new == reservations'[Len(reservations')]
          IN /\ res'.op \in {"createReservation",
                             "createCustomerReservation"}
             /\ new.isCustomerReservation
                  <=> (res'.op = "createCustomerReservation")
             /\ new.status = IF new.isCustomerReservation
                             THEN "pending" ELSE "confirmed"
     /\ \A k \in DOMAIN reservations :
          (/\ k \in DOMAIN reservations'
           /\ reservations[k].isCustomerReservation
           /\ reservations[k].status # "confirmed"
           /\ reservations'[k].status = "confirmed")
          => \/ /\ res'.op = "approveCustomerReservation"
                /\ reservations[k].status = "pending"
             \/ res'.op = "updateReservationStatus"]_vars

C32_Witness ==
  /\ res = Response("approveCustomerReservation", 200, "")
  /\ \E k \in DOMAIN reservations :
        /\ reservations[k].isCustomerReservation
        /\ reservations[k].status = "confirmed"
        /\ reservations[k].approvedBy = Staff

\* C33 (SpecBilling): once orderStatus is completed or cancelled, no
\* operation changes it to a different value.
C33_FinalOrderStatusesStay ==
  [][(HasOrder /\ TheOrder.orderStatus \in {"completed", "cancelled"})
       => orders'[1].orderStatus = TheOrder.orderStatus]_vars

\* position of an orderStatus in pending < preparing < ready < completed
StatusRank(status) ==
  CASE status = "pending" -> 0
    [] status = "preparing" -> 1
    [] status = "ready" -> 2
    [] status = "completed" -> 3

\* C34 (Spec): orderStatus never moves backwards in the order pending <
\* preparing < ready < completed.
C34_OrderStatusNeverMovesBack ==
  [][(/\ HasOrder
      /\ TheOrder.orderStatus # "cancelled"
      /\ orders'[1].orderStatus # "cancelled")
       => StatusRank(orders'[1].orderStatus)
            >= StatusRank(TheOrder.orderStatus)]_vars

\* the order-engine handlers
OrderEngineOps ==
  {"updateOrderItemStatus", "updateOrderStatus", "cancelOrder",
   "requestItemCancellation", "manageItemCancellation"}

\* C35 (SpecBilling): once isBilled is true, no order-engine operation
\* changes an item status or the totalAmount of the order.
C35_BilledOrderIsFrozen ==
  [][(HasOrder /\ TheOrder.isBilled /\ res'.op \in OrderEngineOps)
       => /\ orders'[1].items = TheOrder.items
          /\ orders'[1].totalAmount = TheOrder.totalAmount]_vars

C37_BilledMeansCompleted ==
  (Quiet /\ HasOrder) =>
    /\ TheOrder.isBilled => TheOrder.orderStatus = "completed"
    /\ bills # <<>> => TheOrder.isBilled

\* C38 (SpecSaveFail): when saving the order fails in manageItemCancellation,
\* no approval or rejection notification has been sent for that request.
C38_NoNotificationWithoutSave ==
  (res = Response("manageItemCancellation", 500, "")) => whatsapp = <<>>

\* C39 (SpecToggle): toggleDishSpecial called on a dish that is not on offer,
\* with special price p and range [s, e], leaves a dish that the billing code
\* prices at p at every time t with s <= t <= e.
C39_ToggledOfferIsBilled ==
  [][(res'.op = "toggleDishSpecial") =>
       \A d \in Dishes, body \in SpecialBodies :
         (/\ ~dishes[d].isSpecial
          /\ TruthyNumber(body.specialPrice)
          /\ body.specialStartDate # Undefined
          /\ body.specialEndDate # Undefined
          /\ toggleDishSpecial(d, body))
         => \A t \in body.specialStartDate..body.specialEndDate :
              priceToUse(dishes'[d], t) = body.specialPrice]_vars
====
